---- MODULE Spec2Model ----
(***************************************************************************)
(* Model of the Telegram transfer service: the 5-step orchestration        *)
(* (join, verify ownership, revoke admins, creator handoff, leave) of      *)
(* src/unnamed/part_000 and the 3-step variant (verify, handoff, ledger)   *)
(* of src/index.js.  Every `await` of the source is one action, so that    *)
(* sessions, remote calls and responses are observable between them.       *)
(***************************************************************************)
EXTENDS Integers, Sequences, FiniteSets, TLC

VARIABLES
    variant,    \* which program is deployed: "v5" (part_000) or "v3" (index.js)
    config,     \* process environment read at start-up
    role,       \* platform: role of every user in the channel
    rights,     \* platform: admin capability set of every user
    rank,       \* platform: admin rank label of every user
    ledger,     \* supabase: job status and listing status
    run,        \* per request slot: the handler's locals and position
    prev,       \* summary of the request answered last
    nreq        \* number of requests received so far

vars == <<variant, config, role, rights, rank, ledger, run, prev, nreq>>

(***************************************************************************)
(* Bounds and finite input sets                                            *)
(***************************************************************************)
MaxRequests == 2
NSlots == 2

Slots == 1..NSlots

Escrow == "escrow"
Users == {"escrow", "seller", "mod", "buyer"}
\* order in which the platform lists participants
UserOrder == <<"seller", "mod", "buyer", "escrow">>
Roles == {"creator", "admin", "member", "banned", "none"}

\* handles are sequences of characters
ChannelHandle == <<"s">>
BuyerHandle == <<"b">>
ChannelInputs == {<< >>, <<"s">>, <<"@", "s">>}
BuyerInputs == {<< >>, <<"b">>, <<"@", "b">>}
JobInputs == {"", "j1"}

\* capabilities of ChatAdminRights that are true
AllFalseRights == {}
SomeRights == {"postMessages", "deleteMessages"}

NoCheck == [isOwner |-> FALSE, currentRole |-> "", participantType |-> ""]
NoSteps == [joined |-> FALSE, adminsRemoved |-> -1,
            ownershipTransferred |-> FALSE, escrowLeft |-> FALSE]
NoJoin == [joined |-> FALSE, alreadyMember |-> FALSE]
NoResp == [status |-> 0, error |-> "", details |-> NoCheck, instruction |-> "",
           success |-> FALSE, steps |-> NoSteps, join |-> NoJoin]
NoReq == [endpoint |-> "none", secretOk |-> FALSE, jobId |-> "",
          channelUsername |-> << >>, buyerUsername |-> << >>]

Instruction ==
    IF variant = "v5"
    THEN "Seller must first transfer channel ownership to escrow account"
    ELSE "Seller must first transfer channel ownership to admin account"

\* fault variant: every '@' of the handle is dropped
NormalizeAll(h) == SelectSeq(h, LAMBDA c : c # "@")

(***************************************************************************)
(* Handle normalisation and entity resolution                              *)
(***************************************************************************)
\* channelUsername.startsWith('@') ? channelUsername.slice(1) : channelUsername
Normalize(h) == IF Len(h) > 0 /\ Head(h) = "@" THEN Tail(h) ELSE h

\* client.getEntity: the platform's directory of public handles
Resolve(key) ==
    IF key = ChannelHandle THEN "channel"
    ELSE IF key = BuyerHandle THEN "buyer"
    ELSE "null"

(***************************************************************************)
(* Role classification                                                     *)
(***************************************************************************)
\* the constructor of the participant record the platform returns
ParticipantType(r) ==
    CASE r = "creator" -> "ChannelParticipantCreator"
      [] r = "admin"   -> "ChannelParticipantAdmin"
      [] r = "banned"  -> "ChannelParticipantBanned"
      [] OTHER         -> "ChannelParticipant"

\* fault variant: an admin record counts as ownership
ClassifyAdminOwns(ptype) ==
    LET isCreator == ptype = "ChannelParticipantCreator"
        isAdmin == ptype = "ChannelParticipantAdmin"
    IN [isOwner |-> isCreator \/ isAdmin,
        currentRole |-> IF isCreator THEN "creator"
                        ELSE IF isAdmin THEN "admin" ELSE "member",
        participantType |-> ptype]

Classify(ptype) ==
    LET isCreator == ptype = "ChannelParticipantCreator"
        isAdmin == ptype = "ChannelParticipantAdmin"
    IN [isOwner |-> isCreator,
        currentRole |-> IF isCreator THEN "creator"
                        ELSE IF isAdmin THEN "admin" ELSE "member",
        participantType |-> ptype]

(***************************************************************************)
(* Requests and the per-request record                                     *)
(***************************************************************************)
Endpoints == {"join", "check", "transfer"}

\* fields a handler never reads (also by short-circuit of the validation) are
\* left at their default; the 3-step variant has no join endpoint
Requests ==
    {rq \in [endpoint : Endpoints, secretOk : BOOLEAN, jobId : JobInputs,
             channelUsername : ChannelInputs, buyerUsername : BuyerInputs] :
        /\ (~rq.secretOk) =>
               rq.jobId = "" /\ rq.channelUsername = << >> /\ rq.buyerUsername = << >>
        /\ (rq.endpoint # "transfer") => rq.jobId = "" /\ rq.buyerUsername = << >>
        /\ (rq.endpoint = "transfer" /\ rq.jobId = "") => rq.channelUsername = << >>
        /\ (rq.endpoint = "transfer" /\ rq.channelUsername = << >>) =>
               rq.buyerUsername = << >>
        /\ (variant = "v3") => rq.endpoint # "join"}

NoPending == [kind |-> "none", err |-> ""]

IdleRun ==
    [pc |-> "idle", req |-> NoReq, seq |-> 0, fn |-> "none",
     client |-> "null", open |-> 0, opened |-> 0, pending |-> NoPending,
     channel |-> "null", isMember |-> FALSE, joinResult |-> NoJoin,
     ownershipCheck |-> NoCheck, participants |-> << >>, idx |-> 0,
     removedAdmins |-> << >>, buyerUser |-> "null", passwordHash |-> "none",
     resp |-> NoResp, calls |-> << >>, steps |-> << >>, writes |-> << >>,
     listed |-> << >>, role0 |-> [u \in Users |-> "none"]]

\* log of the calls a request makes on the platform client, with their outcome
Call(rec, op, arg, ok, err) ==
    [rec EXCEPT !.calls = Append(@, [fn |-> rec.fn, op |-> op, arg |-> arg, ok |-> ok,
                                     err |-> IF ok THEN "" ELSE err])]

Invoked(rec, f) == \E i \in 1..Len(rec.steps) : rec.steps[i] = f
Issued(rec, op) == \E i \in 1..Len(rec.calls) : rec.calls[i].op = op
Succeeded(rec, op) == \E i \in 1..Len(rec.calls) : rec.calls[i].op = op /\ rec.calls[i].ok
CountOf(rec, op) == Cardinality({i \in 1..Len(rec.calls) : rec.calls[i].op = op})

\* the creator handoff of a request: not attempted, running, failed or done
HandoffOutcome(rec) ==
    IF ~Invoked(rec, "transfer") THEN "none"
    ELSE IF Succeeded(rec, "EditCreator") THEN "done"
    ELSE IF rec.pc = "done" \/ rec.fn # "transfer" THEN "failed"
    ELSE "running"

\* res.status(..).json(..): the response is sent and the handler ends
Respond(rec, resp) ==
    [rec EXCEPT !.pc = "done", !.resp = resp, !.client = "null",
                !.pending = NoPending, !.channel = "null", !.isMember = FALSE,
                !.participants = << >>, !.idx = 0, !.buyerUser = "null",
                !.passwordHash = "none"]

\* a step function's try block throws: its finally block runs next
Throw(rec, e) ==
    [rec EXCEPT !.pending = [kind |-> "throw", err |-> e], !.pc = "disconnect"]

\* a step function's try block returns: its finally block runs next
Return(rec) ==
    [rec EXCEPT !.pending = [kind |-> "return", err |-> ""], !.pc = "disconnect"]

\* fault variant: a failed leave is reported as success
HandlerCatchLenientLeave(rec, e) ==
    IF rec.fn = "leave"
    THEN Respond(rec, [NoResp EXCEPT !.status = 200, !.success = TRUE])
    ELSE Respond(rec, [NoResp EXCEPT !.status = 500, !.error = e])

\* fault variant: the catch block logs the error and sends nothing
HandlerCatchSilent(rec, e) == [rec EXCEPT !.pc = "caught"]

\* fault variant: a rejected handoff is reported as a success
HandlerCatchHandoffOk(rec, e) ==
    IF rec.fn = "transfer"
    THEN Respond(rec, [NoResp EXCEPT !.status = 200, !.success = TRUE])
    ELSE Respond(rec, [NoResp EXCEPT !.status = 500, !.error = e])

\* the catch block of the endpoint handlers
HandlerCatch(rec, e) ==
    IF rec.req.endpoint = "check"
    THEN Respond(rec, [NoResp EXCEPT !.status = 500, !.error = e,
                          !.details = [isOwner |-> FALSE, currentRole |-> "error",
                                       participantType |-> ""]])
    ELSE Respond(rec, [NoResp EXCEPT !.status = 500, !.error = e])

\* entry of a step function up to its first await (client.connect)
StartFn(rec, f) ==
    LET called == [rec EXCEPT !.fn = f, !.steps = Append(@, f), !.client = "null",
                              !.pending = NoPending, !.channel = "null",
                              !.participants = << >>, !.idx = 0,
                              !.buyerUser = "null", !.passwordHash = "none"]
    IN IF config.sessionString = "missing"
       THEN HandlerCatch(Call(called, "StringSession", << >>, FALSE, "TypeError"),
                         "TypeError")
       ELSE [called EXCEPT !.client = "created", !.pc = "connect"]

\* fault variant: the precondition gate lets every classification through
GateOpenAlways(check) == TRUE

\* if (!ownershipCheck.isOwner) return res.status(400)...
GateOpen(check) == check.isOwner

NotReady(rec) ==
    Respond(rec, [NoResp EXCEPT !.status = 400, !.error = "Transfer not ready",
                     !.details = rec.ownershipCheck, !.instruction = Instruction])

\* fault variant: the ownership verification is skipped after the join
AfterJoinSkipVerify(rec) == StartFn(rec, "revoke")

AfterJoin(rec) == StartFn(rec, "check")

\* fault variant: the 3-step handler has no precondition gate
AfterCheckGateInFullOnly(rec) ==
    IF variant = "v3" THEN StartFn(rec, "transfer")
    ELSE IF ~GateOpen(rec.ownershipCheck) THEN NotReady(rec)
    ELSE StartFn(rec, "revoke")

\* fault variant: the 3-step handler writes the ledger before the handoff
AfterCheckLedgerFirst(rec) ==
    IF ~GateOpen(rec.ownershipCheck) THEN NotReady(rec)
    ELSE IF variant = "v5" THEN StartFn(rec, "revoke")
    ELSE [rec EXCEPT !.pc = "updateJob"]

AfterCheck(rec) ==
    IF ~GateOpen(rec.ownershipCheck) THEN NotReady(rec)
    ELSE IF variant = "v5" THEN StartFn(rec, "revoke")
    ELSE StartFn(rec, "transfer")

\* fault variant: a partial revocation ends the run
AfterRevokeStrict(rec) ==
    IF \E i \in 1..Len(rec.calls) : rec.calls[i].op = "EditAdmin" /\ ~rec.calls[i].ok
    THEN HandlerCatch(rec, "API_ERROR")
    ELSE StartFn(rec, "transfer")

AfterRevoke(rec) == StartFn(rec, "transfer")

AfterTransfer(rec) ==
    IF variant = "v5" THEN StartFn(rec, "leave")
    ELSE [rec EXCEPT !.pc = "updateJob"]

Success(rec) ==
    Respond(rec, [NoResp EXCEPT !.status = 200, !.success = TRUE,
                     !.steps = [joined |-> TRUE,
                                adminsRemoved |-> Len(rec.removedAdmins),
                                ownershipTransferred |-> TRUE,
                                escrowLeft |-> TRUE]])

AfterLeave(rec) == Success(rec)

\* v3 success: { success: true, message, jobId }
SuccessV3(rec) == Respond(rec, [NoResp EXCEPT !.status = 200, !.success = TRUE])

\* fault variant: the precondition is tested only after the admins were revoked
TransferContinueGateLate(rec) ==
    CASE rec.fn = "join"     -> StartFn(rec, "check")
      [] rec.fn = "check"    -> StartFn(rec, "revoke")
      [] rec.fn = "revoke"   -> IF ~rec.ownershipCheck.isOwner THEN NotReady(rec)
                                ELSE StartFn(rec, "transfer")
      [] rec.fn = "transfer" -> StartFn(rec, "leave")
      [] OTHER               -> Success(rec)

\* the transfer handler's code after an awaited step function returned
TransferContinue(rec) ==
    CASE rec.fn = "join"     -> AfterJoin(rec)
      [] rec.fn = "check"    -> AfterCheck(rec)
      [] rec.fn = "revoke"   -> AfterRevoke(rec)
      [] rec.fn = "transfer" -> AfterTransfer(rec)
      [] OTHER               -> AfterLeave(rec)

\* the handler's code after an awaited step function returned
Continue(rec) ==
    CASE rec.req.endpoint = "join" ->
            Respond(rec, [NoResp EXCEPT !.status = 200, !.join = rec.joinResult])
      [] rec.req.endpoint = "check" ->
            Respond(rec, [NoResp EXCEPT !.status = 200, !.details = rec.ownershipCheck])
      [] OTHER -> TransferContinue(rec)

\* verifySecret and the required-field validation, then the first step
FirstStep(rec) ==
    CASE rec.req.endpoint = "join"  -> StartFn(rec, "join")
      [] rec.req.endpoint = "check" -> StartFn(rec, "check")
      [] OTHER -> IF variant = "v5" THEN StartFn(rec, "join")
                  ELSE StartFn(rec, "check")

FieldsMissing(rq) ==
    IF rq.endpoint = "transfer"
    THEN rq.jobId = "" \/ rq.channelUsername = << >> \/ rq.buyerUsername = << >>
    ELSE rq.channelUsername = << >>

\* fault variant: the field validation of the handlers is missing
HandleNoValidation(rec) ==
    IF ~rec.req.secretOk
    THEN Respond(rec, [NoResp EXCEPT !.status = 401, !.error = "Unauthorized"])
    ELSE FirstStep(rec)

Handle(rec) ==
    IF ~rec.req.secretOk
    THEN Respond(rec, [NoResp EXCEPT !.status = 401, !.error = "Unauthorized"])
    ELSE IF FieldsMissing(rec.req)
    THEN Respond(rec, [NoResp EXCEPT !.status = 400, !.error = "required"])
    ELSE FirstStep(rec)

(***************************************************************************)
(* The platform (remote administrative API)                                *)
(***************************************************************************)
\* channels.GetParticipant for escrow: the record's type, or the error
ParticipantLookup ==
    IF role[Escrow] = "none"
    THEN [ok |-> FALSE, err |-> "USER_NOT_PARTICIPANT", ptype |-> ""]
    ELSE [ok |-> TRUE, err |-> "", ptype |-> ParticipantType(role[Escrow])]

\* channels.GetParticipants with the admins filter: creator and admins
AdminList ==
    LET listed == SelectSeq(UserOrder, LAMBDA u : role[u] \in {"creator", "admin"})
    IN [i \in 1..Len(listed) |->
           [userId |-> listed[i], ptype |-> ParticipantType(role[listed[i]])]]

\* fault variant: the self test of the loop is missing
SkipsCreatorOnly(p, me) == p.ptype = "ChannelParticipantCreator"

\* the two `continue` guards of the revocation loop
Skips(p, me) ==
    \/ p.ptype = "ChannelParticipantCreator"
    \/ p.userId = me

\* index of the next participant the loop issues EditAdmin for, from i on
RECURSIVE NextTarget(_, _, _)
NextTarget(list, i, me) ==
    IF i > Len(list) THEN i
    ELSE IF Skips(list[i], me) THEN NextTarget(list, i + 1, me)
    ELSE i

\* the platform accepts channels.EditAdmin from the creator or an admin,
\* never against the creator
EditAdminAllowed(target) ==
    role[Escrow] \in {"creator", "admin"} /\ role[target] # "creator"

\* the platform accepts channels.EditCreator from the creator with a valid proof
EditCreatorAllowed(target, hash) ==
    role[Escrow] = "creator" /\ hash = "valid" /\ target \in Users \ {Escrow}

(***************************************************************************)
(* Actions: one per await of the source                                    *)
(***************************************************************************)
At(r, p) == run[r].pc = p
Set(r, rec) == run' = [run EXCEPT ![r] = rec]
Platform == <<role, rights, rank>>
Static == <<variant, config>>

\* what is remembered of a request once the next one arrives
NoPrev == [endpoint |-> "none", key |-> << >>, status |-> 0,
           alreadyMember |-> FALSE, handoff |-> "none", editRejected |-> FALSE]

\* the call a request failed on, if its last call failed
FailedOp(rec) ==
    IF Len(rec.calls) > 0 /\ ~rec.calls[Len(rec.calls)].ok
    THEN rec.calls[Len(rec.calls)].op ELSE ""

Summary(rec) ==
    IF rec.pc = "idle" THEN NoPrev
    ELSE [endpoint |-> rec.req.endpoint, key |-> Normalize(rec.req.channelUsername),
          status |-> rec.resp.status, alreadyMember |-> rec.resp.join.alreadyMember,
          handoff |-> HandoffOutcome(rec),
          editRejected |-> FailedOp(rec) = "EditCreator"]

\* a new request may be received while requests remain in the budget
CanReceive(r) ==
    /\ nreq < MaxRequests
    /\ run[r].pc \in {"idle", "done"}

Receive(r, rq) ==
    /\ Set(r, Handle([IdleRun EXCEPT !.req = rq, !.seq = nreq + 1, !.role0 = role]))
    /\ prev' = Summary(run[r])
    /\ nreq' = nreq + 1
    /\ UNCHANGED <<Static, Platform, ledger>>

\* the server handles one request at a time, in its first slot
Request(r) ==
    /\ r = 1
    /\ CanReceive(r)
    /\ \E rq \in Requests : Receive(r, rq)

\* await client.connect()
Connect(r) ==
    /\ At(r, "connect")
    /\ \E ok \in BOOLEAN :
          LET rec == Call(run[r], "connect", << >>, ok, "CONNECTION_ERROR")
          IN IF ok
             THEN Set(r, [rec EXCEPT !.client = "connected", !.open = @ + 1,
                                     !.opened = @ + 1, !.pc = "getEntity"])
             ELSE Set(r, Throw(rec, "CONNECTION_ERROR"))
    /\ UNCHANGED <<Static, Platform, ledger, prev, nreq>>

\* const channel = await client.getEntity(normalizedUsername)
GetEntity(r) ==
    /\ At(r, "getEntity")
    /\ \E ok \in BOOLEAN :
          LET key == Normalize(run[r].req.channelUsername)
              good == ok /\ Resolve(key) # "null"
              rec == Call(run[r], "getEntity", key, good, "NOT_FOUND")
              next == CASE rec.fn = "leave" -> "leaveChannel"
                        [] rec.fn = "transfer" -> "getBuyerEntity"
                        [] OTHER -> "getMe"
          IN IF good
             THEN Set(r, [rec EXCEPT !.channel = Resolve(key), !.pc = next])
             ELSE Set(r, Throw(rec, "NOT_FOUND"))
    /\ UNCHANGED <<Static, Platform, ledger, prev, nreq>>

\* const me = await client.getMe()
GetMe(r) ==
    /\ At(r, "getMe")
    /\ \E ok \in BOOLEAN :
          LET rec == Call(run[r], "getMe", << >>, ok, "API_ERROR")
              next == IF rec.fn = "revoke" THEN "getParticipants" ELSE "getParticipant"
          IN IF ok THEN Set(r, [rec EXCEPT !.pc = next])
             ELSE Set(r, Throw(rec, "API_ERROR"))
    /\ UNCHANGED <<Static, Platform, ledger, prev, nreq>>

\* fault variant: isMember is never set, so every call joins
JoinLookupAlwaysJoin(rec, res) ==
    IF res.ok \/ res.err = "USER_NOT_PARTICIPANT"
    THEN [rec EXCEPT !.isMember = FALSE, !.pc = "joinChannel"]
    ELSE Throw(rec, res.err)

\* fault variant: the inner catch takes every lookup error for "not a member"
JoinLookupCatchAll(rec, res) ==
    IF res.ok
    THEN Return([rec EXCEPT !.isMember = TRUE,
                            !.joinResult = [joined |-> TRUE, alreadyMember |-> TRUE]])
    ELSE [rec EXCEPT !.isMember = FALSE, !.pc = "joinChannel"]

\* joinChannelIfNeeded: the lookup, with its inner catch of USER_NOT_PARTICIPANT
JoinLookup(rec, res) ==
    IF res.ok
    THEN Return([rec EXCEPT !.isMember = TRUE,
                            !.joinResult = [joined |-> TRUE, alreadyMember |-> TRUE]])
    ELSE IF res.err = "USER_NOT_PARTICIPANT"
    THEN [rec EXCEPT !.isMember = FALSE, !.pc = "joinChannel"]
    ELSE Throw(rec, res.err)

\* fault variant: the ownership check joins the channel when escrow is outside
CheckLookupJoins(rec, res) ==
    IF res.ok
    THEN Return([rec EXCEPT !.ownershipCheck = Classify(res.ptype)])
    ELSE IF res.err = "USER_NOT_PARTICIPANT"
    THEN [rec EXCEPT !.pc = "joinChannel"]
    ELSE Throw(rec, res.err)

\* checkChannelOwnership: the lookup and the classification
CheckLookup(rec, res) ==
    IF res.ok
    THEN Return([rec EXCEPT !.ownershipCheck = Classify(res.ptype)])
    ELSE Throw(rec, res.err)

\* await client.invoke(new Api.channels.GetParticipant({channel, participant: me}))
GetParticipant(r) ==
    /\ At(r, "getParticipant")
    /\ \E ok \in BOOLEAN :
          LET res == IF ok THEN ParticipantLookup
                     ELSE [ok |-> FALSE, err |-> "API_ERROR", ptype |-> ""]
              rec == Call(run[r], "GetParticipant", <<Escrow>>, res.ok, res.err)
          IN IF rec.fn = "join" THEN Set(r, JoinLookup(rec, res))
             ELSE Set(r, CheckLookup(rec, res))
    /\ UNCHANGED <<Static, Platform, ledger, prev, nreq>>

\* await client.invoke(new Api.channels.JoinChannel({channel}))
JoinChannel(r) ==
    /\ At(r, "joinChannel")
    /\ \E ok \in BOOLEAN :
          LET rec == Call(run[r], "JoinChannel", << >>, ok, "API_ERROR")
          IN IF ok
             THEN /\ role' = [role EXCEPT ![Escrow] = IF @ = "none" THEN "member" ELSE @]
                  /\ Set(r, Return([rec EXCEPT !.joinResult =
                                       [joined |-> TRUE, alreadyMember |-> FALSE]]))
             ELSE /\ role' = role
                  /\ Set(r, Throw(rec, "API_ERROR"))
    /\ UNCHANGED <<Static, rights, rank, ledger, prev, nreq>>

\* the loop of removeAllOtherAdmins from index i on, up to its next await
RevokeLoop(rec, i) ==
    LET j == NextTarget(rec.participants, i, Escrow)
    IN IF j > Len(rec.participants)
       THEN Return([rec EXCEPT !.idx = j])
       ELSE [rec EXCEPT !.idx = j, !.pc = "editAdmin"]

\* await client.invoke(new Api.channels.GetParticipants({filter: admins, limit: 200}))
GetParticipants(r) ==
    /\ At(r, "getParticipants")
    /\ \E ok \in BOOLEAN :
          LET rec == Call(run[r], "GetParticipants", << >>, ok, "API_ERROR")
          IN IF ok
             THEN Set(r, RevokeLoop([rec EXCEPT !.participants = AdminList,
                                                !.listed = AdminList,
                                                !.removedAdmins = << >>], 1))
             ELSE Set(r, Throw(rec, "API_ERROR"))
    /\ UNCHANGED <<Static, Platform, ledger, prev, nreq>>

\* fault variant: the identifier is pushed whether or not the request succeeded
AfterEditAdminCountAll(rec, target, good) ==
    RevokeLoop([rec EXCEPT !.removedAdmins = Append(@, target)], rec.idx + 1)

\* fault variant: a failed rights-edit request aborts the loop
AfterEditAdminAbort(rec, target, good) ==
    IF good
    THEN RevokeLoop([rec EXCEPT !.removedAdmins = Append(@, target)], rec.idx + 1)
    ELSE Throw(rec, "API_ERROR")

\* the inner try/catch of the loop: push on success, log and go on otherwise
AfterEditAdmin(rec, target, good) ==
    IF good
    THEN RevokeLoop([rec EXCEPT !.removedAdmins = Append(@, target)], rec.idx + 1)
    ELSE RevokeLoop(rec, rec.idx + 1)

\* await client.invoke(new Api.channels.EditAdmin({userId, adminRights: all false, rank: ''}))
EditAdmin(r) ==
    /\ At(r, "editAdmin")
    /\ \E ok \in BOOLEAN :
          LET target == run[r].participants[run[r].idx].userId
              good == ok /\ EditAdminAllowed(target)
              rec == Call(run[r], "EditAdmin", <<target>>, good, "API_ERROR")
          IN /\ IF good
                THEN /\ rights' = [rights EXCEPT ![target] = AllFalseRights]
                     /\ rank' = [rank EXCEPT ![target] = ""]
                     /\ role' = [role EXCEPT ![target] =
                                    IF @ = "admin" THEN "member" ELSE @]
                ELSE UNCHANGED Platform
             /\ Set(r, AfterEditAdmin(rec, target, good))
    /\ UNCHANGED <<Static, ledger, prev, nreq>>

\* await client.invoke(new Api.channels.LeaveChannel({channel}))
LeaveChannel(r) ==
    /\ At(r, "leaveChannel")
    /\ \E ok \in BOOLEAN :
          LET good == ok /\ role[Escrow] \notin {"creator", "none"}
              err == IF role[Escrow] = "creator" THEN "USER_CREATOR"
                     ELSE IF role[Escrow] = "none" THEN "USER_NOT_PARTICIPANT"
                     ELSE "API_ERROR"
              rec == Call(run[r], "LeaveChannel", << >>, good, err)
          IN IF good
             THEN /\ role' = [role EXCEPT ![Escrow] = "none"]
                  /\ rights' = [rights EXCEPT ![Escrow] = AllFalseRights]
                  /\ rank' = [rank EXCEPT ![Escrow] = ""]
                  /\ Set(r, Return(rec))
             ELSE /\ UNCHANGED Platform
                  /\ Set(r, Throw(rec, err))
    /\ UNCHANGED <<Static, ledger, prev, nreq>>

\* const buyerUser = await client.getEntity(normalizedBuyer)
GetBuyerEntity(r) ==
    /\ At(r, "getBuyerEntity")
    /\ \E ok \in BOOLEAN :
          LET key == Normalize(run[r].req.buyerUsername)
              good == ok /\ Resolve(key) # "null"
              rec == Call(run[r], "getEntity", key, good, "NOT_FOUND")
          IN IF good
             THEN Set(r, [rec EXCEPT !.buyerUser = Resolve(key), !.pc = "getPassword"])
             ELSE Set(r, Throw(rec, "NOT_FOUND"))
    /\ UNCHANGED <<Static, Platform, ledger, prev, nreq>>

\* const passwordSrp = await client.invoke(new Api.account.GetPassword())
GetPassword(r) ==
    /\ At(r, "getPassword")
    /\ \E ok \in BOOLEAN :
          LET rec == Call(run[r], "GetPassword", << >>, ok, "API_ERROR")
          IN IF ok THEN Set(r, [rec EXCEPT !.pc = "computeCheck"])
             ELSE Set(r, Throw(rec, "API_ERROR"))
    /\ UNCHANGED <<Static, Platform, ledger, prev, nreq>>

\* const passwordHash = await computeCheck(passwordSrp, ADMIN_2FA_PASSWORD)
ComputeCheck(r) ==
    /\ At(r, "computeCheck")
    /\ LET good == config.password # "missing"
           rec == Call(run[r], "computeCheck", << >>, good, "AUTH_PROOF_ERROR")
       IN IF good
          THEN Set(r, [rec EXCEPT !.pc = "editCreator",
                          !.passwordHash = IF config.password = "right" THEN "valid"
                                           ELSE "invalid"])
          ELSE Set(r, Throw(rec, "AUTH_PROOF_ERROR"))
    /\ UNCHANGED <<Static, Platform, ledger, prev, nreq>>

\* await client.invoke(new Api.channels.EditCreator({channel, userId: buyerUser, password}))
EditCreator(r) ==
    /\ At(r, "editCreator")
    /\ \E ok \in BOOLEAN :
          LET target == run[r].buyerUser
              good == ok /\ EditCreatorAllowed(target, run[r].passwordHash)
              err == IF run[r].passwordHash # "valid" THEN "PASSWORD_HASH_INVALID"
                     ELSE IF role[Escrow] # "creator" THEN "CHAT_ADMIN_REQUIRED"
                     ELSE "API_ERROR"
              rec == Call(run[r], "EditCreator", <<target>>, good, err)
          IN IF good
             THEN /\ role' = [role EXCEPT ![target] = "creator", ![Escrow] = "admin"]
                  /\ rights' = [rights EXCEPT ![target] = AllFalseRights,
                                              ![Escrow] = SomeRights]
                  /\ rank' = [rank EXCEPT ![target] = "", ![Escrow] = ""]
                  /\ Set(r, Return(rec))
             ELSE /\ UNCHANGED Platform
                  /\ Set(r, Throw(rec, err))
    /\ UNCHANGED <<Static, ledger, prev, nreq>>

\* fault variant: the session is released on the normal path only
FinallyOnReturnOnly(rec) ==
    IF rec.pending.kind = "throw" THEN [rec EXCEPT !.client = "closed"]
    ELSE [rec EXCEPT !.client = "closed",
                     !.open = IF rec.client = "connected" THEN @ - 1 ELSE @]

\* finally { if (client) { await client.disconnect() } }
Finally(rec) ==
    [rec EXCEPT !.client = "closed",
                !.open = IF rec.client = "connected" THEN @ - 1 ELSE @]

\* fault variant: a step's error is swallowed and the handler goes on
SettleSwallow(rec) == Continue(rec)

\* fault variant: a failed step is retried once
SettleRetry(rec) ==
    IF rec.pending.kind = "throw"
    THEN IF Len(rec.steps) < 6 THEN StartFn(rec, rec.fn)
         ELSE HandlerCatch(rec, rec.pending.err)
    ELSE Continue(rec)

\* the awaited step function settles: the handler resumes or catches
Settle(rec) ==
    IF rec.pending.kind = "throw" THEN HandlerCatch(rec, rec.pending.err)
    ELSE Continue(rec)

Disconnect(r) ==
    /\ At(r, "disconnect")
    /\ Set(r, Settle(Finally(run[r])))
    /\ UNCHANGED <<Static, Platform, ledger, prev, nreq>>

(***************************************************************************)
(* The ledger steps of the 3-step variant                                  *)
(***************************************************************************)
KnownJob(j) == j = "j1"

\* await supabase.from('jobs').update({status: 'completed'}).eq('id', jobId)
UpdateJob(r) ==
    /\ At(r, "updateJob")
    /\ \E ok \in BOOLEAN :
          /\ ledger' = IF ok /\ KnownJob(run[r].req.jobId)
                       THEN [ledger EXCEPT !.job = "completed"] ELSE ledger
          /\ Set(r, [run[r] EXCEPT !.pc = "selectJob",
                        !.writes = Append(@, IF ok THEN "job" ELSE "jobFailed")])
    /\ UNCHANGED <<Static, Platform, prev, nreq>>

\* const { data: job } = await supabase.from('jobs').select('listing_id')...single()
SelectJob(r) ==
    /\ At(r, "selectJob")
    /\ \E ok \in BOOLEAN :
          IF ok /\ KnownJob(run[r].req.jobId)
          THEN Set(r, [run[r] EXCEPT !.pc = "updateListing"])
          ELSE Set(r, SuccessV3(run[r]))
    /\ UNCHANGED <<Static, Platform, ledger, prev, nreq>>

\* await supabase.from('social_media_listings').update({status: 'sold'})
UpdateListing(r) ==
    /\ At(r, "updateListing")
    /\ \E ok \in BOOLEAN :
          /\ ledger' = IF ok THEN [ledger EXCEPT !.listing = "sold"] ELSE ledger
          /\ Set(r, SuccessV3([run[r] EXCEPT
                        !.writes = Append(@, IF ok THEN "listing" ELSE "listingFailed")]))
    /\ UNCHANGED <<Static, Platform, prev, nreq>>

(***************************************************************************)
(* Initial states and specification                                        *)
(***************************************************************************)
\* without a session string no step gets as far as the password
Configs ==
    {c \in [sessionString : {"set", "missing"}, password : {"right", "wrong", "missing"}] :
        c.sessionString = "missing" => c.password = "right"}

\* the channel has one creator: the seller, or escrow once the seller handed over
InitRoles ==
    {f \in [Users -> Roles] :
        /\ Cardinality({u \in Users : f[u] = "creator"}) = 1
        /\ f["seller"] \in {"creator", "admin", "none"}
        /\ f["seller"] = "creator" \/ f[Escrow] = "creator"
        /\ f["mod"] \in {"admin", "member"}
        /\ f["buyer"] = "member"}

Init ==
    /\ variant \in {"v5", "v3"}
    /\ config \in Configs
    /\ role \in InitRoles
    /\ rights = [u \in Users |-> IF role[u] = "admin" THEN SomeRights ELSE AllFalseRights]
    /\ rank = [u \in Users |-> IF role[u] = "admin" THEN "mod" ELSE ""]
    /\ ledger = [job |-> "pending", listing |-> "active"]
    /\ run = [r \in Slots |-> IdleRun]
    /\ prev = NoPrev
    /\ nreq = 0

Step(r) ==
    \/ Connect(r)
    \/ GetEntity(r)
    \/ GetMe(r)
    \/ GetParticipant(r)
    \/ JoinChannel(r)
    \/ GetParticipants(r)
    \/ EditAdmin(r)
    \/ GetBuyerEntity(r)
    \/ GetPassword(r)
    \/ ComputeCheck(r)
    \/ EditCreator(r)
    \/ LeaveChannel(r)
    \/ Disconnect(r)
    \/ UpdateJob(r)
    \/ SelectJob(r)
    \/ UpdateListing(r)

Next == \E r \in Slots : Request(r) \/ Step(r)

Spec == Init /\ [][Next]_vars

(***************************************************************************)
(* Concurrent requests: the handlers interleave at every await              *)
(***************************************************************************)
\* well-formed transfer requests for the one channel and the one buyer
ConcRequests ==
    {rq \in Requests :
        /\ rq.endpoint = "transfer" /\ rq.secretOk /\ rq.jobId = "j1"
        /\ rq.channelUsername = <<"@", "s">> /\ rq.buyerUsername = <<"@", "b">>}

\* a pair of requests, the second arriving at any moment of the first
ConcSlots == {1, 2}

\* express dispatches a request whenever one arrives: nothing waits for the
\* request in flight
RequestConc(r) ==
    /\ r \in ConcSlots
    /\ CanReceive(r)
    /\ run[r].pc = "idle"
    /\ \A o \in ConcSlots : o < r => run[o].pc # "idle"
    /\ \E rq \in ConcRequests : Receive(r, rq)

InitConc ==
    /\ Init
    /\ config = [sessionString |-> "set", password |-> "right"]
    /\ role[Escrow] \in {"creator", "none"}

NextConc == \E r \in Slots : RequestConc(r) \/ Step(r)

SpecConc == InitConc /\ [][NextConc]_vars

(***************************************************************************)
(* Handles with and without the '@' sigil: a request, then the same        *)
(* request with the sigil of a handle added or dropped                     *)
(***************************************************************************)
Sigil == <<"@">>
HasSigil(h) == Len(h) > 0 /\ Head(h) = "@"
ChannelSpellings == {ChannelHandle, Sigil \o ChannelHandle, Sigil \o Sigil \o ChannelHandle}
BuyerSpellings == {BuyerHandle, Sigil \o BuyerHandle, Sigil \o Sigil \o BuyerHandle}

HandleRequests ==
    {rq \in [endpoint : Endpoints, secretOk : {TRUE}, jobId : {"", "j1"},
             channelUsername : ChannelSpellings,
             buyerUsername : BuyerSpellings \cup {<< >>}] :
        /\ (rq.endpoint = "transfer") <=> (rq.jobId = "j1")
        /\ (rq.endpoint = "transfer") <=> (rq.buyerUsername # << >>)
        /\ (variant = "v3") => rq.endpoint # "join"}

\* h and '@' + h, for h without sigil
SameHandle(x, y) ==
    \/ x = y
    \/ ~HasSigil(x) /\ y = Sigil \o x
    \/ ~HasSigil(y) /\ x = Sigil \o y

SameRequest(p, q) ==
    /\ p.endpoint = q.endpoint /\ p.jobId = q.jobId
    /\ SameHandle(p.channelUsername, q.channelUsername)
    /\ SameHandle(p.buyerUsername, q.buyerUsername)

\* the request left the channel and the ledger as it found them
LeftUntouched(rec) ==
    /\ rec.writes = << >>
    /\ \A i \in 1..Len(rec.calls) :
          rec.calls[i].ok =>
              rec.calls[i].op \notin {"JoinChannel", "EditAdmin", "EditCreator", "LeaveChannel"}

RequestHandles(r) ==
    /\ r \in ConcSlots
    /\ CanReceive(r)
    /\ run[r].pc = "idle"
    /\ \E rq \in HandleRequests :
          /\ r > 1 => /\ run[1].pc = "done"
                      /\ LeftUntouched(run[1])
                      /\ SameRequest(run[1].req, rq)
          /\ Receive(r, rq)

InitHandles ==
    /\ Init
    /\ config = [sessionString |-> "set", password |-> "right"]

NextHandles == \E r \in Slots : RequestHandles(r) \/ Step(r)

SpecHandles == InitHandles /\ [][NextHandles]_vars

(***************************************************************************)
(* One transfer request, every awaited call eventually settling            *)
(***************************************************************************)
LiveRequests == {rq \in Requests : rq.endpoint = "transfer"}

RequestLive(r) ==
    /\ r = 1
    /\ CanReceive(r)
    /\ run[r].pc = "idle"
    /\ \E rq \in LiveRequests : Receive(r, rq)

NextLive == \E r \in Slots : RequestLive(r) \/ Step(r)

\* a promise the handler awaits is resolved or rejected in the end
Settling == \A r \in Slots : WF_vars(Step(r))

SpecLive == Init /\ [][NextLive]_vars /\ Settling

(***************************************************************************)
(* Properties                                                              *)
(***************************************************************************)
Done(rec) == rec.pc = "done"
Accepted(rec) == rec.pc # "idle" /\ rec.req.secretOk /\ ~FieldsMissing(rec.req)
IsTransferRun(rec) == Accepted(rec) /\ rec.req.endpoint = "transfer"
Classified(rec) == rec.ownershipCheck # NoCheck
FullOrder == <<"join", "check", "revoke", "transfer", "leave">>
IsPrefix(s, t) == Len(s) <= Len(t) /\ \A i \in 1..Len(s) : s[i] = t[i]
IsNotReady(rec) ==
    Done(rec) /\ rec.resp.status = 400 /\ rec.resp.error = "Transfer not ready"

\* C1: a transfer run whose ownership check classifies escrow as anything but
\* creator never invokes the revocation, handoff or leave step, and answers
\* 400 'Transfer not ready' with the classifier's result and the instruction.
C1_GateBlocksNonCreator ==
    \A r \in Slots :
        LET rec == run[r]
        IN (IsTransferRun(rec) /\ Classified(rec) /\ ~rec.ownershipCheck.isOwner) =>
              /\ ~Invoked(rec, "revoke")
              /\ ~Invoked(rec, "transfer")
              /\ ~Invoked(rec, "leave")
              /\ rec.pc \in {"disconnect", "done"}
              /\ Done(rec) =>
                    /\ rec.resp.status = 400
                    /\ rec.resp.error = "Transfer not ready"
                    /\ rec.resp.details = rec.ownershipCheck
                    /\ rec.resp.instruction = Instruction

C1_Witness ==
    \E r \in Slots :
        /\ IsTransferRun(run[r]) /\ IsNotReady(run[r])
        /\ run[r].resp.details.currentRole = "admin"
        /\ run[r].steps = <<"join", "check">>

\* C2 as claimed: when the 400 precondition response is sent the run has issued
\* no join, rights-edit, creator-edit or leave request, and membership and roles
\* are as they were when the run started.
C2_NoMutationBeforeNotReady ==
    \A r \in Slots :
        IsNotReady(run[r]) =>
            /\ ~Issued(run[r], "JoinChannel")
            /\ ~Issued(run[r], "EditAdmin")
            /\ ~Issued(run[r], "EditCreator")
            /\ ~Issued(run[r], "LeaveChannel")
            /\ role = run[r].role0

\* C2 amended: when the 400 precondition response is sent the run has issued no
\* rights-edit, creator-edit or leave request; the only mutating request it may
\* have issued is the one join of step 1, made when escrow was not a
\* participant, so every other user's role is unchanged and escrow's role is
\* unchanged or went from not-participant to member.
C2_OnlyJoinBeforeNotReady ==
    \A r \in Slots :
        IsNotReady(run[r]) =>
            /\ ~Issued(run[r], "EditAdmin")
            /\ ~Issued(run[r], "EditCreator")
            /\ ~Issued(run[r], "LeaveChannel")
            /\ CountOf(run[r], "JoinChannel") <= 1
            /\ Issued(run[r], "JoinChannel") =>
                  run[r].role0[Escrow] = "none" /\ role[Escrow] = "member"
            /\ ~Issued(run[r], "JoinChannel") => role = run[r].role0
            /\ \A u \in Users \ {Escrow} : role[u] = run[r].role0[u]

C2_Witness ==
    \E r \in Slots :
        /\ IsNotReady(run[r])
        /\ Succeeded(run[r], "JoinChannel")
        /\ role # run[r].role0

\* C3: when the creator handoff step of a transfer run fails, the run answers
\* 500, never attempts the leave step, and escrow is still creator, so that the
\* ownership check of the request that follows returns isOwner true.
C3_FailedHandoffKeepsEscrowCreator ==
    /\ \A r \in Slots :
          (IsTransferRun(run[r]) /\ HandoffOutcome(run[r]) = "failed") =>
              /\ Done(run[r])
              /\ run[r].resp.status = 500
              /\ ~Invoked(run[r], "leave")
              /\ role[Escrow] = "creator"
    /\ \A r \in Slots :
          (prev.handoff = "failed" /\ run[r].seq = nreq /\ Classified(run[r])
             /\ Len(run[r].steps) > 0 /\ run[r].steps[Len(run[r].steps)] = "check") =>
              run[r].ownershipCheck.isOwner

C3_Witness ==
    \E r \in Slots :
        /\ prev.handoff = "failed"
        /\ prev.editRejected
        /\ prev.status = 500
        /\ Done(run[r])
        /\ run[r].req.endpoint = "check"
        /\ run[r].resp.status = 200
        /\ run[r].resp.details.isOwner

\* users other than escrow that were admins when the request arrived
OtherAdmins0(rec) == {u \in Users \ {Escrow} : rec.role0[u] = "admin"}

\* C4: a 5-step transfer run with escrow creator in which every call succeeds
\* performs join, verify, revoke, handoff, leave in this order, each once, and
\* answers success with adminsRemoved the number of admins revoked; with no
\* other admin adminsRemoved is 0 and no rights-edit request is issued.
C4_HappyPathOrder ==
    \A r \in Slots :
        LET rec == run[r]
        IN (IsTransferRun(rec) /\ Done(rec) /\ variant = "v5"
              /\ rec.role0[Escrow] = "creator"
              /\ \A i \in 1..Len(rec.calls) : rec.calls[i].ok) =>
              /\ rec.steps = FullOrder
              /\ rec.resp.status = 200
              /\ rec.resp.success
              /\ rec.resp.steps = [joined |-> TRUE,
                                   adminsRemoved |-> Cardinality(OtherAdmins0(rec)),
                                   ownershipTransferred |-> TRUE,
                                   escrowLeft |-> TRUE]
              /\ CountOf(rec, "EditAdmin") = Cardinality(OtherAdmins0(rec))
              /\ CountOf(rec, "JoinChannel") = 0
              /\ CountOf(rec, "EditCreator") = 1
              /\ CountOf(rec, "LeaveChannel") = 1
              /\ OtherAdmins0(rec) = {} =>
                    rec.resp.steps.adminsRemoved = 0 /\ ~Issued(rec, "EditAdmin")

C4_Witness ==
    \E r \in Slots :
        /\ IsTransferRun(run[r]) /\ Done(run[r]) /\ variant = "v5"
        /\ run[r].role0[Escrow] = "creator"
        /\ OtherAdmins0(run[r]) = {}
        /\ run[r].resp.success
        /\ run[r].resp.steps.adminsRemoved = 0
        /\ run[r].steps = FullOrder

\* C5: within a run at most one session is open at any time, none is open when
\* a step starts, when the handler awaits the ledger, or when the response is
\* sent, on every exit path of every step.
C5_SessionsScoped ==
    \A r \in Slots :
        /\ run[r].open \in {0, 1}
        /\ run[r].pc \in {"idle", "connect", "done", "updateJob", "selectJob",
                          "updateListing"} => run[r].open = 0
        /\ run[r].open = 1 => run[r].client = "connected"

C5_Witness ==
    \E r \in Slots :
        /\ Done(run[r])
        /\ run[r].resp.status = 500
        /\ run[r].opened = 4
        /\ run[r].open = 0
        /\ run[r].pc = "done"

\* a failed call that no inner catch of a step function handles
Fatal(c) ==
    /\ ~c.ok
    /\ c.op # "EditAdmin"
    /\ ~(c.fn = "join" /\ c.op = "GetParticipant" /\ c.err = "USER_NOT_PARTICIPANT")

\* the orchestrator's state, read off the handler's position
OrchState(rec) ==
    CASE rec.pc = "idle" -> "Idle"
      [] Done(rec) /\ rec.resp.status = 200 -> "Completed"
      [] Done(rec) /\ rec.resp.status = 500 -> "Failed"
      [] IsNotReady(rec) -> "NotReady"
      [] Done(rec) -> "Rejected"
      [] rec.fn = "join" -> "Joining"
      [] rec.fn = "check" -> "VerifyingOwnership"
      [] rec.fn = "revoke" -> "RevokingAdmins"
      [] rec.fn = "transfer" -> "TransferringCreator"
      [] OTHER -> "Leaving"

Running == {"Joining", "VerifyingOwnership", "RevokingAdmins", "TransferringCreator",
            "Leaving"}

OrchEdges ==
    {<<"Joining", "VerifyingOwnership">>, <<"VerifyingOwnership", "RevokingAdmins">>,
     <<"VerifyingOwnership", "NotReady">>, <<"RevokingAdmins", "TransferringCreator">>,
     <<"TransferringCreator", "Leaving">>, <<"Leaving", "Completed">>}
        \cup {<<x, "Failed">> : x \in Running}

OrchOrdered(rec) ==
    /\ IsPrefix(rec.steps, FullOrder)
    /\ OrchState(rec) = "Completed" => rec.steps = FullOrder
    /\ OrchState(rec) = "Failed" =>
          Len(rec.calls) > 0 /\ Fatal(rec.calls[Len(rec.calls)])
    /\ \A i \in 1..Len(rec.calls) :
          Fatal(rec.calls[i]) =>
              /\ i = Len(rec.calls)
              /\ rec.calls[i].fn = rec.steps[Len(rec.steps)]
              /\ rec.pc \in {"disconnect", "done"}
              /\ Done(rec) => rec.resp.status = 500 /\ rec.resp.error = rec.calls[i].err

OrchMove(r) ==
    LET a == OrchState(run[r])
        b == OrchState(run'[r])
    IN IF run'[r].seq # run[r].seq
       THEN b \in {"Joining", "Failed", "Rejected"}
       ELSE a = b \/ <<a, b>> \in OrchEdges

\* C6: a 5-step transfer run moves only along Idle, Joining,
\* VerifyingOwnership, RevokingAdmins, TransferringCreator, Leaving, Completed;
\* a failed step moves it to Failed, after which no call of a later step is
\* issued, no step is run again, and the answer is 500 with the error message.
C6_OrchestratorOrder ==
    /\ [](\A r \in Slots :
            (variant = "v5" /\ IsTransferRun(run[r])) => OrchOrdered(run[r]))
    /\ [][\A r \in Slots :
            (variant = "v5" /\ run'[r].req.endpoint = "transfer") => OrchMove(r)]_vars

C6_Witness ==
    \E r \in Slots :
        /\ variant = "v5" /\ IsTransferRun(run[r])
        /\ OrchState(run[r]) = "Failed"
        /\ run[r].steps = <<"join", "check", "revoke">>
        /\ run[r].resp.error = "API_ERROR"

\* C7: once the creator-edit request of a run has succeeded, the run issues no
\* other creator-edit request and the buyer stays creator; when the leave step
\* then fails, the run answers 500 while the buyer holds the creator role.
C7_HandoffIrreversible ==
    \A r \in Slots :
        LET rec == run[r]
        IN Succeeded(rec, "EditCreator") =>
              /\ CountOf(rec, "EditCreator") = 1
              /\ role[rec.calls[CHOOSE i \in 1..Len(rec.calls) :
                                   rec.calls[i].op = "EditCreator"].arg[1]] = "creator"
              /\ role[Escrow] # "creator"
              /\ Cardinality({u \in Users : role[u] = "creator"}) = 1
              /\ (Done(rec) /\ Invoked(rec, "leave") /\ ~Succeeded(rec, "LeaveChannel")) =>
                    rec.resp.status = 500 /\ ~rec.resp.success

C7_Witness ==
    \E r \in Slots :
        /\ Done(run[r])
        /\ Succeeded(run[r], "EditCreator")
        /\ FailedOp(run[r]) = "LeaveChannel"
        /\ run[r].resp.status = 500
        /\ role["buyer"] = "creator"
        /\ role[Escrow] = "admin"

JoinedFresh == [joined |-> TRUE, alreadyMember |-> FALSE]
JoinedAlready == [joined |-> TRUE, alreadyMember |-> TRUE]

\* C8: joinChannelIfNeeded issues exactly one join request and returns
\* {joined, alreadyMember: false} when escrow is not a participant; the call
\* that follows it returns alreadyMember true and issues no join request; no
\* join request is issued while escrow is a participant.
C8_JoinIdempotent ==
    \A r \in Slots :
        LET rec == run[r]
            answered == Done(rec) /\ rec.req.endpoint = "join" /\ rec.resp.status = 200
        IN /\ (Accepted(rec) /\ rec.role0[Escrow] # "none") => ~Issued(rec, "JoinChannel")
           /\ CountOf(rec, "JoinChannel") <= 1
           /\ (answered /\ rec.role0[Escrow] = "none") =>
                 /\ CountOf(rec, "JoinChannel") = 1
                 /\ rec.resp.join = JoinedFresh
                 /\ role[Escrow] = "member"
           /\ (answered /\ rec.role0[Escrow] # "none") => rec.resp.join = JoinedAlready
           /\ (answered /\ rec.seq = nreq /\ prev.endpoint = "join" /\ prev.status = 200) =>
                 rec.resp.join = JoinedAlready /\ ~Issued(rec, "JoinChannel")

C8_Witness ==
    \E r \in Slots :
        /\ prev.endpoint = "join" /\ prev.status = 200 /\ ~prev.alreadyMember
        /\ Done(run[r]) /\ run[r].req.endpoint = "join"
        /\ run[r].resp.status = 200
        /\ run[r].resp.join = JoinedAlready
        /\ ~Issued(run[r], "JoinChannel")

RoleName(k) == IF k = "creator" THEN "creator" ELSE IF k = "admin" THEN "admin" ELSE "member"

\* C9: checkChannelOwnership returns isOwner true exactly when escrow's
\* participant record is the creator record; an admin record gives currentRole
\* 'admin' and every other record currentRole 'member', both with isOwner false.
C9_ClassifyByRecordKind ==
    \A r \in Slots :
        LET rec == run[r]
            k == rec.role0[Escrow]
        IN (Done(rec) /\ rec.req.endpoint = "check" /\ rec.resp.status = 200) =>
              /\ k # "none"
              /\ rec.resp.details.isOwner <=> (k = "creator")
              /\ rec.resp.details.currentRole = RoleName(k)
              /\ rec.resp.details.participantType = ParticipantType(k)

C9_Witness ==
    \E r \in Slots :
        /\ Done(run[r]) /\ run[r].req.endpoint = "check"
        /\ run[r].req.channelUsername = <<"@", "s">>
        /\ run[r].resp.status = 200
        /\ role[Escrow] = "member"
        /\ run[r].resp.details = [isOwner |-> FALSE, currentRole |-> "member",
                                  participantType |-> "ChannelParticipant"]

\* the ownership check's participant lookup was answered with the sentinel
SentinelSeen(rec) ==
    \E i \in 1..Len(rec.calls) :
        /\ rec.calls[i].fn = "check"
        /\ rec.calls[i].op = "GetParticipant"
        /\ rec.calls[i].err = "USER_NOT_PARTICIPANT"

\* C10: when the participant lookup of the ownership check answers 'not a
\* participant', the check returns a regular result with currentRole
\* 'not-participant' and isOwner false: the check-ownership endpoint answers
\* with that result and a transfer run answers 400 'Transfer not ready'.
C10_NotParticipantIsResult ==
    \A r \in Slots :
        LET rec == run[r]
        IN (Done(rec) /\ SentinelSeen(rec)) =>
              IF rec.req.endpoint = "check"
              THEN /\ rec.resp.status = 200
                   /\ rec.resp.details.currentRole = "not-participant"
                   /\ ~rec.resp.details.isOwner
              ELSE IsNotReady(rec)

\* the rights-edit requests of a run, in the order issued
EditCalls(rec) == SelectSeq(rec.calls, LAMBDA c : c.op = "EditAdmin")
Targets(cs) == [i \in 1..Len(cs) |-> cs[i].arg[1]]
Ids(ps) == [i \in 1..Len(ps) |-> ps[i].userId]

\* the listed admins that are neither a creator record nor escrow itself
OtherListed(rec) ==
    SelectSeq(rec.listed, LAMBDA p : p.ptype # "ChannelParticipantCreator"
                                     /\ p.userId # Escrow)

\* removeAllOtherAdmins has listed the admins and left its loop
RevokeReturned(rec) ==
    /\ Succeeded(rec, "GetParticipants")
    /\ rec.fn # "revoke" \/ rec.pc \in {"disconnect", "done"}

\* C11: removeAllOtherAdmins never issues a rights-edit request for a listed
\* creator record or for escrow itself; it issues exactly one for every other
\* listed admin, in listing order, and when all of them succeed it returns
\* exactly their identifiers.
C11_RevokeTargets ==
    \A r \in Slots :
        LET rec == run[r]
            edits == EditCalls(rec)
        IN /\ \A i \in 1..Len(edits) :
                 /\ edits[i].arg[1] # Escrow
                 /\ \E j \in 1..Len(rec.listed) :
                       /\ rec.listed[j].userId = edits[i].arg[1]
                       /\ rec.listed[j].ptype # "ChannelParticipantCreator"
           /\ IsPrefix(Targets(edits), Ids(OtherListed(rec)))
           /\ RevokeReturned(rec) => Targets(edits) = Ids(OtherListed(rec))
           /\ (RevokeReturned(rec) /\ \A i \in 1..Len(edits) : edits[i].ok) =>
                 rec.removedAdmins = Ids(OtherListed(rec))

\* escrow is listed as a plain admin beside the new creator, and is skipped
C11_Witness ==
    \E r \in Slots :
        /\ RevokeReturned(run[r])
        /\ \E j \in 1..Len(run[r].listed) :
              run[r].listed[j] = [userId |-> Escrow, ptype |-> "ChannelParticipantAdmin"]
        /\ \E j \in 1..Len(run[r].listed) :
              run[r].listed[j].ptype = "ChannelParticipantCreator"
        /\ Len(run[r].removedAdmins) = 1
        /\ run[r].removedAdmins = Targets(EditCalls(run[r]))

\* C12: a failed rights-edit request does not end the loop: every other listed
\* admin after it is still attempted, the function returns normally with
\* exactly the identifiers whose request succeeded, and adminsRemoved is the
\* number of successful revocations.
C12_RevokeContinuesPastFailure ==
    \A r \in Slots :
        LET rec == run[r]
            edits == EditCalls(rec)
            okIds == Targets(SelectSeq(edits, LAMBDA c : c.ok))
        IN /\ (Issued(rec, "EditAdmin") /\ At(r, "disconnect") /\ rec.fn = "revoke") =>
                 rec.pending.kind = "return"
           /\ RevokeReturned(rec) =>
                 /\ Len(edits) = Len(OtherListed(rec))
                 /\ rec.removedAdmins = okIds
           /\ (Done(rec) /\ rec.resp.success /\ variant = "v5") =>
                 rec.resp.steps.adminsRemoved = Len(okIds)

C12_Witness ==
    \E r \in Slots :
        LET edits == EditCalls(run[r])
        IN /\ Done(run[r]) /\ run[r].resp.success
           /\ Len(edits) = 2
           /\ ~edits[1].ok /\ edits[2].ok
           /\ run[r].resp.steps.adminsRemoved = 1
           /\ run[r].removedAdmins = <<edits[2].arg[1]>>

\* C13 as stated: every run that has entered the revocation step attempts the
\* creator handoff, whatever happened during revocation.
C13_RevokeAlwaysReachesHandoff ==
    \A r \in Slots :
        (Done(run[r]) /\ Invoked(run[r], "revoke")) => Invoked(run[r], "transfer")

\* C13 (amended): once the revocation step has listed the admins, the run
\* attempts the creator handoff however many rights-edit requests fail; a run
\* that entered the revocation step and never attempts the handoff failed to
\* connect, resolve the channel, read its own identity or list the admins, and
\* ends with a 500 response and no rights-edit request issued.
C13_RevokeReachesHandoffOnceListed ==
    \A r \in Slots :
        LET rec == run[r]
        IN /\ (Succeeded(rec, "GetParticipants")
                 /\ ~(rec.fn = "revoke" /\ ~Done(rec))) =>
                 Invoked(rec, "transfer")
           /\ (Done(rec) /\ Invoked(rec, "revoke") /\ ~Invoked(rec, "transfer")) =>
                 /\ rec.resp.status = 500
                 /\ rec.fn = "revoke"
                 /\ ~Issued(rec, "EditAdmin")
                 /\ FailedOp(rec) \in {"connect", "getEntity", "getMe", "GetParticipants"}

\* every rights-edit request of the run failed, and the handoff was attempted
C13_Witness ==
    \E r \in Slots :
        LET edits == EditCalls(run[r])
        IN /\ Len(edits) = 2
           /\ \A i \in 1..Len(edits) : ~edits[i].ok
           /\ Invoked(run[r], "transfer")
           /\ Issued(run[r], "EditCreator")

\* C14: a request rejected by the shared-secret gate (401) or by field
\* validation (400) never enters the workflow: no step function is called, no
\* session is opened and no remote call is issued for it.
C14_RejectedRequestsTouchNothing ==
    \A r \in Slots :
        LET rec == run[r]
        IN (rec.pc # "idle" /\ (~rec.req.secretOk \/ FieldsMissing(rec.req))) =>
              /\ Done(rec)
              /\ rec.resp.status = IF rec.req.secretOk THEN 400 ELSE 401
              /\ ~rec.resp.success
              /\ rec.calls = << >>
              /\ rec.steps = << >>
              /\ rec.opened = 0 /\ rec.open = 0
              /\ rec.client = "null"
              /\ rec.writes = << >>

\* a transfer request with job id and channel but no buyer is answered 400
C14_Witness ==
    \E r \in Slots :
        /\ Done(run[r])
        /\ run[r].req.endpoint = "transfer" /\ run[r].req.secretOk
        /\ run[r].req.jobId # "" /\ run[r].req.channelUsername # << >>
        /\ run[r].req.buyerUsername = << >>
        /\ run[r].resp.status = 400
        /\ run[r].calls = << >>

\* the membership lookup of the join step failed with something else than the
\* "not a participant" sentinel
LookupBroke(rec) ==
    \E i \in 1..Len(rec.calls) :
        /\ rec.calls[i].fn = "join" /\ rec.calls[i].op = "GetParticipant"
        /\ ~rec.calls[i].ok /\ rec.calls[i].err # "USER_NOT_PARTICIPANT"

\* C15: in joinChannelIfNeeded a membership lookup that fails with anything but
\* the "not a participant" sentinel is thrown to the caller: no join request is
\* issued, no {joined, alreadyMember} result is produced, and the request ends
\* with a 500 response carrying that error, never reaching the ownership check.
C15_LookupFailurePropagates ==
    \A r \in Slots :
        LET rec == run[r]
        IN LookupBroke(rec) =>
              /\ ~Issued(rec, "JoinChannel")
              /\ rec.joinResult = NoJoin
              /\ rec.steps = <<"join">>
              /\ ~Invoked(rec, "check")
              /\ rec.pc \in {"disconnect", "done"}
              /\ rec.pc = "disconnect" => rec.pending.kind = "throw"
              /\ Done(rec) =>
                    /\ rec.resp.status = 500
                    /\ rec.resp.error = rec.calls[Len(rec.calls)].err
                    /\ rec.resp.join = NoJoin

C15_Witness ==
    \E r \in Slots :
        /\ IsTransferRun(run[r]) /\ Done(run[r])
        /\ LookupBroke(run[r])
        /\ run[r].resp.status = 500
        /\ run[r].role0[Escrow] = "creator"

\* C16 as stated: the creator-edit request is issued only in a state where
\* escrow holds the creator role at that moment, also when another run changes
\* the channel's roles between the ownership check and the handoff.
C16_HandoffOnlyWhileCreator ==
    \A r \in Slots :
        /\ At(r, "editCreator") => role[Escrow] = "creator"
        /\ \A i \in 1..Len(run[r].calls) :
              run[r].calls[i].op = "EditCreator" =>
                  run[r].calls[i].err # "CHAT_ADMIN_REQUIRED"

\* C17: nothing serialises two transfer runs against one channel: both can
\* pass the ownership check, and then the handoff of one makes the other, which
\* had verified ownership, fail: of two runs that verified ownership at most
\* one hands the channel over, and the other ends with a 500 response.
C17_OverlappingRunsOneLoses ==
    \A r, o \in Slots :
        (/\ r # o
         /\ IsTransferRun(run[r]) /\ IsTransferRun(run[o])
         /\ run[r].ownershipCheck.isOwner /\ run[o].ownershipCheck.isOwner
         /\ Succeeded(run[r], "EditCreator")) =>
            /\ ~Succeeded(run[o], "EditCreator")
            /\ Done(run[o]) => run[o].resp.status = 500 /\ ~run[o].resp.success

\* both runs verified ownership; one reports success, the other's creator-edit
\* request was rejected because escrow was no longer the creator
C17_Witness ==
    \E r, o \in Slots :
        /\ r # o
        /\ Done(run[r]) /\ run[r].resp.success
        /\ Done(run[o]) /\ run[o].resp.status = 500
        /\ run[r].ownershipCheck.isOwner /\ run[o].ownershipCheck.isOwner
        /\ FailedOp(run[o]) = "EditCreator"
        /\ run[o].resp.error = "CHAT_ADMIN_REQUIRED"

\* the handle with one leading '@' removed, if it has one
StripOne(h) == IF HasSigil(h) THEN SubSeq(h, 2, Len(h)) ELSE h

\* the second getEntity of transferChannelOwnership resolves the buyer
IsBuyerLookup(rec, i) ==
    /\ rec.calls[i].fn = "transfer"
    /\ \E j \in 1..(i - 1) :
          /\ rec.calls[j].fn = "transfer" /\ rec.calls[j].op = "getEntity"
          /\ \A k \in j..i : rec.calls[k].fn = "transfer"

\* what the platform answered to the calls of a request, in order
Answers(rec) == [i \in 1..Len(rec.calls) |-> <<rec.calls[i].ok, rec.calls[i].err>>]

\* C18: every step looks a handle up under the key obtained by removing one
\* leading '@' and nothing else, so '@' + h and h (h without '@') give the same
\* key h; and a request given '@' + h, on the same channel state and with the
\* same platform answers, issues the same remote calls and gets the same
\* response as the request given h.
C18_SigilIsStrippedOnce ==
    /\ \A r \in Slots :
          LET rec == run[r]
          IN /\ \A i \in 1..Len(rec.calls) :
                   rec.calls[i].op = "getEntity" =>
                       rec.calls[i].arg =
                           IF IsBuyerLookup(rec, i)
                           THEN StripOne(rec.req.buyerUsername)
                           ELSE StripOne(rec.req.channelUsername)
             /\ \A x \in {rec.req.channelUsername, rec.req.buyerUsername} :
                   ~HasSigil(x) => Normalize(x) = x /\ Normalize(Sigil \o x) = x
    /\ (/\ Done(run[1]) /\ Done(run[2])
        /\ Answers(run[1]) = Answers(run[2])) =>
           /\ run[1].calls = run[2].calls
           /\ run[1].steps = run[2].steps
           /\ run[1].resp = run[2].resp

\* the same transfer request spelt without and with the sigil: same calls, same
\* "Transfer not ready" answer
C18_Witness ==
    /\ Done(run[1]) /\ Done(run[2])
    /\ run[1].req.endpoint = "transfer"
    /\ run[1].req.channelUsername = ChannelHandle
    /\ run[2].req.channelUsername = Sigil \o ChannelHandle
    /\ run[1].req.buyerUsername = BuyerHandle
    /\ run[2].req.buyerUsername = Sigil \o BuyerHandle
    /\ IsNotReady(run[1]) /\ IsNotReady(run[2])
    /\ run[1].calls = run[2].calls
    /\ \E i \in 1..Len(run[2].calls) :
          run[2].calls[i].op = "getEntity" /\ run[2].calls[i].arg = ChannelHandle

\* the request is at one of the ledger calls of the 3-step handler
AtLedger(rec) == rec.pc \in {"updateJob", "selectJob", "updateListing"}

\* C19: in the 3-step variant the ledger is written only by a transfer run
\* whose creator-edit request has succeeded: the job becomes 'completed' and the
\* listing 'sold' only then, no ledger call is made by a request answered 401,
\* 400 or 500, and a failed job-status update leaves the success response as it
\* is.
C19_LedgerFollowsHandoff ==
    /\ [](\A r \in Slots :
            LET rec == run[r]
            IN /\ (AtLedger(rec) \/ rec.writes # << >>) =>
                     /\ variant = "v3"
                     /\ IsTransferRun(rec)
                     /\ rec.ownershipCheck.isOwner
                     /\ Succeeded(rec, "EditCreator")
               /\ (Done(rec) /\ rec.resp.status # 200) => rec.writes = << >>
               /\ (Done(rec) /\ rec.writes # << >>) =>
                     rec.resp.status = 200 /\ rec.resp.success /\ rec.resp.error = "")
    /\ [][ledger' # ledger =>
            \E r \in Slots :
                /\ run[r].pc \in {"updateJob", "updateListing"}
                /\ Succeeded(run[r], "EditCreator")
                /\ run'[r].writes # run[r].writes]_vars
    /\ [](ledger.job \in {"pending", "completed"} /\ ledger.listing \in {"active", "sold"})

\* the job update failed, the listing was marked sold, the answer is a success
C19_Witness ==
    \E r \in Slots :
        /\ variant = "v3"
        /\ Done(run[r]) /\ run[r].resp.success
        /\ run[r].writes = <<"jobFailed", "listing">>
        /\ ledger = [job |-> "pending", listing |-> "sold"]

\* a step function of the request threw
StepFailed(rec, f) ==
    \E i \in 1..Len(rec.calls) : rec.calls[i].fn = f /\ Fatal(rec.calls[i])

\* the steps only the 5-step variant has went through
ExtraStepsFine(rec) ==
    ~StepFailed(rec, "join") /\ ~StepFailed(rec, "revoke") /\ ~StepFailed(rec, "leave")

\* the response class the platform's answers to the ownership check and to the
\* handoff call for, whichever variant serves the request
SharedClass(rec) ==
    IF StepFailed(rec, "check") THEN 500
    ELSE IF rec.role0[Escrow] # "creator" THEN 400
    ELSE IF StepFailed(rec, "transfer") THEN 500
    ELSE 200

\* the handoff got as far as its creator-edit request
SharedHandoff(rec) ==
    /\ ~StepFailed(rec, "check")
    /\ rec.role0[Escrow] = "creator"
    /\ \A i \in 1..Len(rec.calls) :
          (rec.calls[i].fn = "transfer" /\ rec.calls[i].op # "EditCreator") =>
              rec.calls[i].ok

\* C20: on the steps they share the two variants behave alike: given the
\* platform's answers to the ownership check and to the handoff, and provided
\* join, revocation and leave go through, a finished transfer run of either
\* variant issues the creator-edit request in the same cases, after the
\* ownership check, and answers with the same class (success, 400 "Transfer not
\* ready", 500).
C20_VariantsAgreeOnSharedSteps ==
    \A r \in Slots :
        LET rec == run[r]
        IN (IsTransferRun(rec) /\ Done(rec) /\ ExtraStepsFine(rec)) =>
              /\ rec.resp.status = SharedClass(rec)
              /\ rec.resp.success <=> SharedClass(rec) = 200
              /\ rec.resp.status = 400 => rec.resp.error = "Transfer not ready"
              /\ Issued(rec, "EditCreator") <=> SharedHandoff(rec)
              /\ \A i \in 1..Len(rec.calls) :
                    rec.calls[i].op = "EditCreator" =>
                        \E j \in 1..(i - 1) :
                            /\ rec.calls[j].fn = "check"
                            /\ rec.calls[j].op = "GetParticipant"
                            /\ rec.calls[j].ok

\* the 3-step variant hands the channel over after its check and answers success
C20_Witness ==
    \E r \in Slots :
        /\ variant = "v3"
        /\ Done(run[r]) /\ run[r].resp.success
        /\ run[r].steps = <<"check", "transfer">>
        /\ Succeeded(run[r], "EditCreator")
        /\ SharedClass(run[r]) = 200

StatusCodes == {200, 400, 401, 500}

NoDuplicates(q) == \A i, j \in 1..Len(q) : q[i] = q[j] => i = j

\* C21: provided every awaited call settles, every request to the transfer
\* endpoint gets exactly one response (200, 400, 401 or 500): one is always
\* sent in the end, none is sent before and nothing changes after it; and the
\* revocation loop lists one page once and visits each listed admin at most
\* once.
C21_OneResponsePerRequest ==
    /\ \A r \in Slots : (run[r].pc # "idle") ~> (run[r].pc = "done")
    /\ [](\A r \in Slots :
            LET rec == run[r]
            IN /\ Done(rec) => rec.resp.status \in StatusCodes
               /\ ~Done(rec) => rec.resp = NoResp
               /\ CountOf(rec, "GetParticipants") <= 1
               /\ Len(rec.listed) <= Cardinality(Users)
               /\ CountOf(rec, "EditAdmin") <= Len(rec.listed)
               /\ NoDuplicates(Targets(EditCalls(rec))))
    /\ [][\A r \in Slots : Done(run[r]) => run'[r] = run[r]]_vars

\* a run whose loop went over two other admins and which was answered
C21_Witness ==
    \E r \in Slots :
        /\ IsTransferRun(run[r]) /\ Done(run[r])
        /\ run[r].resp.status = 200
        /\ CountOf(run[r], "EditAdmin") = 2
        /\ Len(run[r].listed) = 3

Creators == {u \in Users : role[u] = "creator"}

\* C22: when a single run of the 5-step transfer answers success, the buyer is
\* the channel's creator, escrow is no participant, the channel has exactly one
\* creator, and every admin counted in adminsRemoved has an all-false
\* capability set and an empty rank.
C22_SuccessMeansHandedOver ==
    \A r \in Slots :
        LET rec == run[r]
        IN (variant = "v5" /\ IsTransferRun(rec) /\ Done(rec) /\ rec.resp.success) =>
              /\ role["buyer"] = "creator"
              /\ role[Escrow] = "none"
              /\ Creators = {"buyer"}
              /\ rec.resp.steps.adminsRemoved = Len(rec.removedAdmins)
              /\ \A i \in 1..Len(rec.removedAdmins) :
                    /\ rights[rec.removedAdmins[i]] = AllFalseRights
                    /\ rank[rec.removedAdmins[i]] = ""

\* seller and mod lost their rights, the buyer owns the channel, escrow is out
C22_Witness ==
    \E r \in Slots :
        /\ variant = "v5" /\ Done(run[r]) /\ run[r].resp.success
        /\ run[r].resp.steps.adminsRemoved = 2
        /\ run[r].role0["seller"] = "admin" /\ run[r].role0["mod"] = "admin"
        /\ rights["seller"] = AllFalseRights /\ rights["mod"] = AllFalseRights
        /\ role["buyer"] = "creator" /\ role[Escrow] = "none"

SessionOps == {"StringSession", "connect"}
ReadOps == {"getEntity", "getMe", "GetParticipant"}

\* the request in slot r takes a step of checkChannelOwnership
CheckStep(r) ==
    /\ run[r].fn = "check"
    /\ run[r].pc \notin {"idle", "done"}
    /\ run'[r] # run[r]

\* C23: the ownership check is read-only: whatever its outcome,
\* checkChannelOwnership issues, besides opening its session, only resolve,
\* get-self and get-participant calls, and none of its steps changes the
\* channel's membership, roles, admin rights or ranks, or the ledger.
C23_CheckIsReadOnly ==
    /\ [](\A r \in Slots :
            /\ \A i \in 1..Len(run[r].calls) :
                  run[r].calls[i].fn = "check" =>
                      run[r].calls[i].op \in SessionOps \cup ReadOps
            /\ run[r].req.endpoint = "check" =>
                  /\ \A i \in 1..Len(run[r].calls) : run[r].calls[i].fn = "check"
                  /\ role = run[r].role0
                  /\ run[r].writes = << >>)
    /\ [][\A r \in Slots : CheckStep(r) => UNCHANGED <<role, rights, rank, ledger>>]_vars

\* a check-ownership request answered with the role of an admin escrow
C23_Witness ==
    \E r \in Slots :
        /\ run[r].req.endpoint = "check" /\ Done(run[r])
        /\ run[r].resp.status = 200
        /\ run[r].resp.details.currentRole = "admin"
        /\ Succeeded(run[r], "GetParticipant")
        /\ role[Escrow] = "admin" /\ rights[Escrow] = SomeRights

====
